---- MODULE Spec2Model ----
(***************************************************************************)
(* Model of the mock Solver API (playground/pysolver): the FastAPI         *)
(* handlers of main.py and the pydantic schemas of models.py.              *)
(*                                                                         *)
(* Wire strings are sequences of one-character strings, so that prefixes,  *)
(* lengths, digits and signs can be inspected.  A JSON value of a request  *)
(* body is a record [t, v]: t is its JSON type ("str" or "num") and v its  *)
(* lexeme.  Query parameters are plain strings.                            *)
(***************************************************************************)
EXTENDS Integers, Sequences, FiniteSets, TLC

VARIABLES
    conn,      \* per connection: idle, a request received, or its response
    now,       \* the time, against which auction deadlines are read
    returned,  \* the solutions handed out so far: their ids and deadlines
    cache      \* the solutions the process has recorded for reveal

vars == <<conn, now, returned, cache>>

----------------------------------------------------------------------------
(* Bounds of the model *)

MaxConns == 2
MaxTime == 2
MaxReturned == 2
MaxOrders == 2
MaxLiquidity == 2
MaxId == 1

Conns == 1..MaxConns

----------------------------------------------------------------------------
(* Strings *)

Rep(c, n) == [i \in 1..n |-> c]

DecDigits == <<"0", "1", "2", "3", "4", "5", "6", "7", "8", "9">>

DecChars == {DecDigits[i] : i \in 1..10}

HexChars == DecChars \cup {"a", "b", "c", "d", "e", "f", "A", "B", "C", "D", "E", "F"}

DigitVal(ch) == (CHOOSE i \in 1..10 : DecDigits[i] = ch) - 1

RECURSIVE DigitsVal(_)
DigitsVal(s) ==
    IF s = <<>> THEN 0
    ELSE 10 * DigitsVal(SubSeq(s, 1, Len(s) - 1)) + DigitVal(s[Len(s)])

(* Python int(str): an optional sign followed by one or more decimal digits
   (leading zeros allowed); anything else raises ValueError.  Underscores and
   surrounding white space, which int() also tolerates, are not in the
   alphabet of the modelled inputs. *)
PyInt(s) ==
    LET signed == s # <<>> /\ s[1] \in {"-", "+"}
        digits == IF signed THEN Tail(s) ELSE s
        ok     == digits # <<>> /\ \A i \in 1..Len(digits) : digits[i] \in DecChars
    IN  IF ~ok THEN [ok |-> FALSE, val |-> 0]
        ELSE [ok |-> TRUE,
              val |-> IF signed /\ s[1] = "-" THEN 0 - DigitsVal(digits)
                      ELSE DigitsVal(digits)]

RECURSIVE NatStr(_)
NatStr(n) ==
    IF n < 10 THEN <<DecDigits[n + 1]>>
    ELSE Append(NatStr(n \div 10), DecDigits[(n % 10) + 1])

(* Python str(int) *)
PyStr(n) == IF n < 0 THEN <<"-">> \o NatStr(0 - n) ELSE NatStr(n)

----------------------------------------------------------------------------
(* Wire values *)

JStr(s) == [t |-> "str", v |-> s]

JNum(s) == [t |-> "num", v |-> s]

Pfx0x == <<"0", "x">>

(* A lower-case and an upper-case 20-byte address, and three malformed ones *)
AddrA == Pfx0x \o Rep("a", 40)

AddrB == Pfx0x \o Rep("B", 40)

AddrNoPrefix == Rep("a", 40)

AddrShort == Pfx0x \o Rep("a", 39)

AddrNonHex == Pfx0x \o Rep("a", 39) \o <<"g">>

Uid1 == Pfx0x \o Rep("1", 112)

Uid2 == Pfx0x \o Rep("2", 112)

(* A fee-policy payload: its kind tag and the names of the other fields
   that are present in the JSON object *)
FeeSurplus == [kind |-> "surplus", fields |-> {"maxVolumeFactor", "factor"}]

FeePriceImprovement ==
    [kind |-> "priceImprovement", fields |-> {"maxVolumeFactor", "factor", "quote"}]

FeeVolume == [kind |-> "volume", fields |-> {"factor"}]

FeeSurplusNoFactor == [kind |-> "surplus", fields |-> {"maxVolumeFactor"}]

FeeUnknown == [kind |-> "unknown", fields |-> {"factor"}]

FeeSamples ==
    {FeeSurplus, FeePriceImprovement, FeeVolume, FeeSurplusNoFactor, FeeUnknown}

----------------------------------------------------------------------------
(* models.py: schemas *)

(* Address, TokenAmount, BigUint and OrderUID are Annotated[str, Field(
   description=..., example=...)]: the annotation carries no pattern and no
   length, so the type validates as a plain str.  A JSON string of any
   content passes, a JSON number does not. *)
Address(j) == j.t = "str"

TokenAmount(j) == j.t = "str"

BigUint(j) == j.t = "str"

OrderUID(j) == j.t = "str"

(* The FeePolicy union, discriminated by kind: the tag selects the variant,
   whose required fields must then be present.  The result is the variant's
   class name, or "error" when validation fails. *)
SurplusFee(p) == {"maxVolumeFactor", "factor"} \subseteq p.fields

PriceImprovement(p) == {"maxVolumeFactor", "factor", "quote"} \subseteq p.fields

VolumeFee(p) == {"factor"} \subseteq p.fields

FeePolicy(p) ==
    CASE p.kind = "surplus" -> IF SurplusFee(p) THEN "SurplusFee" ELSE "error"
      [] p.kind = "priceImprovement" ->
            IF PriceImprovement(p) THEN "PriceImprovement" ELSE "error"
      [] p.kind = "volume" -> IF VolumeFee(p) THEN "VolumeFee" ELSE "error"
      [] OTHER -> "error"

(* SolverLiquidity: of its fields the model keeps address and id *)
SolverLiquidity(l) == Address(l.address) /\ l.id.t = "str"

(* SolverOrder: of its fields the model keeps uid, the two tokens, the two
   amounts and protocolFees.  protocolFees is declared as a bare List, so
   its entries are not decoded: any JSON array passes. *)
SolverOrder(o) ==
    /\ TokenAmount(o.buyAmount)
    /\ Address(o.buyToken)
    /\ TokenAmount(o.sellAmount)
    /\ Address(o.sellToken)
    /\ OrderUID(o.uid)

(* SolverRequest: deadline is carried already parsed *)
SolverRequest(r) ==
    /\ TokenAmount(r.effectiveGasPrice)
    /\ \A i \in 1..Len(r.liquidity) : SolverLiquidity(r.liquidity[i])
    /\ \A i \in 1..Len(r.orders) : SolverOrder(r.orders[i])

----------------------------------------------------------------------------
(* main.py: handlers, as functions from a request to a response *)

NoReq == [ep |-> "none"]

NoResp == [status |-> 0]

(* FastAPI answers a request that fails validation with 422 and an
   exception escaping a handler with 500 *)
ValidationError == [status |-> 422, body |-> [detail |-> "validation"]]

InternalError == [status |-> 500, body |-> [detail |-> "Internal Server Error"]]

EmptyObject == [status |-> 200, body |-> [keys |-> {}]]

get_mock_address(index) ==
    Pfx0x \o Rep("1", 39 - Len(PyStr(index))) \o PyStr(index)
          \o <<"a", "B", "c", "D", "e", "F">>

PriceSell == <<"1">> \o Rep("0", 18)

PriceBuy == <<"9", "5">> \o Rep("0", 16)

(* The two locals of get_quote; they are assigned and never read *)
buy_amount(q) ==
    IF q.kind = "sell" THEN PyStr((PyInt(q.amount).val * 95) \div 100) ELSE q.amount

sell_amount(q) ==
    IF q.kind = "sell" THEN q.amount ELSE PyStr((PyInt(q.amount).val * 100) \div 95)

QuoteResponse(q) ==
    [clearingPrices |->
         [k \in {q.sellToken, q.buyToken} |->
              IF k = q.buyToken THEN PriceBuy ELSE PriceSell],
     preInteractions |-> <<>>,
     interactions |-> <<>>,
     solver |-> get_mock_address(0),
     gas |-> 150000,
     txOrigin |-> "None",
     jitOrders |-> <<>>]

(* The query parameters are strings; kind is a Literal, and int(amount)
   raises ValueError on a string that is not an integer literal *)
get_quote(q) ==
    IF q.kind \notin {"buy", "sell"} THEN ValidationError
    ELSE IF ~PyInt(q.amount).ok THEN InternalError
    ELSE [status |-> 200, body |-> QuoteResponse(q)]

Solution(first_order, first_liquidity) ==
    [id |-> 0,
     prices |->
         [k \in {first_order.sellToken.v, first_order.buyToken.v} |->
              IF k = first_order.buyToken.v THEN first_order.sellAmount.v
              ELSE first_order.buyAmount.v],
     trades |-> <<[kind |-> "fulfillment",
                   order |-> first_order.uid.v,
                   executedAmount |-> first_order.sellAmount.v]>>,
     interactions |-> <<[kind |-> "liquidity",
                         internalize |-> FALSE,
                         id |-> first_liquidity.id.v,
                         inputToken |-> first_order.sellToken.v,
                         outputToken |-> first_order.buyToken.v,
                         inputAmount |-> first_order.sellAmount.v,
                         outputAmount |-> first_order.buyAmount.v]>>,
     gas |-> 250000]

SolveResponse(solutions) == [status |-> 200, body |-> [solutions |-> solutions]]

(* solve_auction filling the last order against the last liquidity entry *)
solve_auction_LastEntries(request) ==
    IF ~SolverRequest(request) THEN ValidationError
    ELSE IF request.orders = <<>> \/ request.liquidity = <<>>
         THEN SolveResponse(<<>>)
    ELSE SolveResponse(<<Solution(request.orders[Len(request.orders)],
                                  request.liquidity[Len(request.liquidity)])>>)

(* solve_auction returning early only when both lists are empty: with one of
   them empty the handler then reads a field of None and raises *)
solve_auction_BothEmpty(request) ==
    IF ~SolverRequest(request) THEN ValidationError
    ELSE IF request.orders = <<>> /\ request.liquidity = <<>>
         THEN SolveResponse(<<>>)
    ELSE IF request.orders = <<>> \/ request.liquidity = <<>>
         THEN InternalError
    ELSE SolveResponse(<<Solution(request.orders[1], request.liquidity[1])>>)

solve_auction(request) ==
    IF ~SolverRequest(request) THEN ValidationError
    ELSE IF request.orders = <<>> \/ request.liquidity = <<>>
         THEN SolveResponse(<<>>)
    ELSE SolveResponse(<<Solution(request.orders[1], request.liquidity[1])>>)

CalldataInternalized ==
    Pfx0x \o <<"d", "e", "a", "d", "b", "e", "e", "f", "1", "2", "3", "4">>

CalldataUninternalized ==
    Pfx0x \o <<"f", "e", "e", "d", "f", "a", "c", "e", "5", "6", "7", "8">>

reveal_solution(request) ==
    [status |-> 200,
     body |-> [calldata |-> [internalized |-> CalldataInternalized,
                             uninternalized |-> CalldataUninternalized]]]

settle_solution(request) == EmptyObject

receive_notification(notification) == EmptyObject

healthz == [status |-> 200, body |-> [status |-> "ok"]]

----------------------------------------------------------------------------
(* The service: connections of the driver, each carrying one request at a
   time.  A handler is an async function without an await, so it runs to
   completion once the event loop starts it; requests that have arrived are
   handled in any order. *)

Idle == [st |-> "idle", req |-> NoReq, resp |-> NoResp]

InFlightSolves == Cardinality({c \in Conns : conn[c].st = "recv" /\ conn[c].req.ep = "solve"})

Receive(c, req) ==
    /\ conn[c].st = "idle"
    /\ req.ep = "solve" => Len(returned) + InFlightSolves < MaxReturned
    /\ conn' = [conn EXCEPT ![c] = [st |-> "recv", req |-> req, resp |-> NoResp]]
    /\ UNCHANGED <<now, returned, cache>>

Respond(c, resp) ==
    conn' = [conn EXCEPT ![c] = [st |-> "done", req |-> conn[c].req, resp |-> resp]]

Quote(c) ==
    /\ conn[c].st = "recv" /\ conn[c].req.ep = "quote"
    /\ Respond(c, get_quote(conn[c].req))
    /\ UNCHANGED <<now, returned, cache>>

(* returned is the driver's record of the solutions it has been handed *)
Solve(c) ==
    /\ conn[c].st = "recv" /\ conn[c].req.ep = "solve"
    /\ LET resp == solve_auction(conn[c].req)
       IN  /\ Respond(c, resp)
           /\ returned' =
                 IF resp.status = 200 /\ resp.body.solutions # <<>>
                 THEN Append(returned, [id |-> resp.body.solutions[1].id,
                                        deadline |-> conn[c].req.deadline])
                 ELSE returned
    /\ UNCHANGED <<now, cache>>

Reveal(c) ==
    /\ conn[c].st = "recv" /\ conn[c].req.ep = "reveal"
    /\ Respond(c, reveal_solution(conn[c].req))
    /\ UNCHANGED <<now, returned, cache>>

Settle(c) ==
    /\ conn[c].st = "recv" /\ conn[c].req.ep = "settle"
    /\ Respond(c, settle_solution(conn[c].req))
    /\ UNCHANGED <<now, returned, cache>>

Notify(c) ==
    /\ conn[c].st = "recv" /\ conn[c].req.ep = "notify"
    /\ Respond(c, receive_notification(conn[c].req))
    /\ UNCHANGED <<now, returned, cache>>

Healthz(c) ==
    /\ conn[c].st = "recv" /\ conn[c].req.ep = "healthz"
    /\ Respond(c, healthz)
    /\ UNCHANGED <<now, returned, cache>>

Close(c) ==
    /\ conn[c].st = "done"
    /\ conn' = [conn EXCEPT ![c] = Idle]
    /\ UNCHANGED <<now, returned, cache>>

Tick ==
    /\ now < MaxTime
    /\ now' = now + 1
    /\ UNCHANGED <<conn, returned, cache>>

(* The process holds no solution store: main.py defines no module-level
   collection and no handler assigns shared state, so cache stays empty. *)
Init ==
    /\ conn = [c \in Conns |-> Idle]
    /\ now = 0
    /\ returned = <<>>
    /\ cache = {}

----------------------------------------------------------------------------
(* Requests of the driver *)

SeqsUpTo(S, n) == UNION {[1..k -> S] : k \in 0..n}

Amount100 == <<"1", "0", "0">>

Order1 ==
    [uid |-> JStr(Uid1), sellToken |-> JStr(AddrA), buyToken |-> JStr(AddrB),
     sellAmount |-> JStr(Amount100), buyAmount |-> JStr(<<"9", "5">>),
     protocolFees |-> <<FeeSurplus>>]

Order2 ==
    [uid |-> JStr(Uid2), sellToken |-> JStr(AddrB), buyToken |-> JStr(AddrA),
     sellAmount |-> JStr(<<"7">>), buyAmount |-> JStr(<<"1">>),
     protocolFees |-> <<>>]

(* sellAmount sent as a JSON number *)
OrderMistyped == [Order1 EXCEPT !.sellAmount = JNum(<<"5">>)]

(* JSON strings throughout, but a malformed address, a signed amount, an
   amount with leading zeros and two undecodable fee policies *)
OrderMalformed ==
    [uid |-> JStr(Uid2), sellToken |-> JStr(AddrNoPrefix), buyToken |-> JStr(AddrB),
     sellAmount |-> JStr(<<"-", "5">>), buyAmount |-> JStr(<<"0", "0", "7">>),
     protocolFees |-> <<FeeUnknown, FeeSurplusNoFactor>>]

Liquidity1 == [id |-> JStr(<<"7">>), address |-> JStr(AddrA)]

Liquidity2 == [id |-> JStr(<<"8">>), address |-> JStr(AddrB)]

SolveReqs(orderSet, liquiditySet, gasPrices, deadlines) ==
    {[ep |-> "solve", deadline |-> d, effectiveGasPrice |-> g,
      orders |-> os, liquidity |-> ls] :
        d \in deadlines, g \in gasPrices,
        os \in SeqsUpTo(orderSet, MaxOrders),
        ls \in SeqsUpTo(liquiditySet, MaxLiquidity)}

QuoteReqs(sellTokens, buyTokens, kinds, amounts) ==
    {[ep |-> "quote", sellToken |-> st, buyToken |-> bt, kind |-> k,
      amount |-> a, deadline |-> d] :
        st \in sellTokens, bt \in buyTokens, k \in kinds, a \in amounts,
        d \in 1..MaxTime}

RevealReqs ==
    {[ep |-> "reveal", solutionId |-> i, auctionId |-> 1] : i \in 0..MaxId}

SettleReqs ==
    {[ep |-> "settle", solutionId |-> i, submissionDeadlineLatestBlock |-> 1,
      auctionId |-> 1] : i \in 0..MaxId}

NotifyReqs == {[ep |-> "notify", notification |-> k] : k \in {"timeout", "banned"}}

HealthzReqs == {[ep |-> "healthz"]}

(* The lifecycle: well-formed requests on every connection *)
LifeReqs ==
    SolveReqs({Order1}, {Liquidity1}, {JStr(<<"1">>)}, 1..MaxTime)
      \cup QuoteReqs({AddrA}, {AddrB}, {"sell"}, {Amount100})
      \cup RevealReqs \cup SettleReqs \cup NotifyReqs \cup HealthzReqs

Next ==
    \/ \E c \in Conns, req \in LifeReqs : Receive(c, req)
    \/ \E c \in Conns : Quote(c)
    \/ \E c \in Conns : Solve(c)
    \/ \E c \in Conns : Reveal(c)
    \/ \E c \in Conns : Settle(c)
    \/ \E c \in Conns : Notify(c)
    \/ \E c \in Conns : Healthz(c)
    \/ \E c \in Conns : Close(c)
    \/ Tick

Spec == Init /\ [][Next]_vars

(* The wire: quote and solve requests of every shape, one at a time *)
AmountSamples ==
    {<<"0">>, <<"1">>, <<"1", "9">>, Amount100, <<"0", "0", "7">>, <<"-", "5">>,
     <<"+", "5">>, <<"1", "e", "3">>, <<>>}

WireReqs ==
    SolveReqs({Order1, Order2, OrderMistyped, OrderMalformed},
              {Liquidity1, Liquidity2},
              {JStr(<<"1">>), JStr(<<"-", "1">>)}, {1})
      \cup QuoteReqs({AddrA, AddrNoPrefix, AddrShort, AddrNonHex}, {AddrA, AddrB},
                     {"buy", "sell", "both"}, AmountSamples)

NextWire ==
    \/ \E req \in WireReqs : Receive(1, req)
    \/ Quote(1)
    \/ Solve(1)
    \/ Close(1)

SpecWire == Init /\ [][NextWire]_vars

----------------------------------------------------------------------------
(* Well-formedness of wire values, as the data contract states it *)

U256Max ==
    <<"1", "1", "5", "7", "9", "2", "0", "8", "9", "2", "3", "7", "3", "1",
      "6", "1", "9", "5", "4", "2", "3", "5", "7", "0", "9", "8", "5", "0",
      "0", "8", "6", "8", "7", "9", "0", "7", "8", "5", "3", "2", "6", "9",
      "9", "8", "4", "6", "6", "5", "6", "4", "0", "5", "6", "4", "0", "3",
      "9", "4", "5", "7", "5", "8", "4", "0", "0", "7", "9", "1", "3", "1",
      "2", "9", "6", "3", "9", "9", "3", "5">>

RECURSIVE LexLeq(_, _)
LexLeq(a, b) ==
    IF a = <<>> THEN TRUE
    ELSE IF DigitVal(Head(a)) # DigitVal(Head(b))
         THEN DigitVal(Head(a)) < DigitVal(Head(b))
    ELSE LexLeq(Tail(a), Tail(b))

IsTokenAmount(s) ==
    /\ s # <<>>
    /\ \A i \in 1..Len(s) : s[i] \in DecChars
    /\ Len(s) = 1 \/ s[1] # "0"
    /\ Len(s) < Len(U256Max) \/ (Len(s) = Len(U256Max) /\ LexLeq(s, U256Max))

IsAddress(s) ==
    /\ Len(s) = 42
    /\ SubSeq(s, 1, 2) = Pfx0x
    /\ \A i \in 3..42 : s[i] \in HexChars

Done(c, ep) == conn[c].st = "done" /\ conn[c].req.ep = ep

----------------------------------------------------------------------------
(* Claims *)

(* C1: the ids of the solutions handed out by one service instance form a
   strictly increasing sequence, so no two solve calls return the same id *)
C1_IdsStrictlyIncreasing ==
    \A i, j \in DOMAIN returned : i < j => returned[i].id < returned[j].id

(* C2: a solution returned with id i for an auction with deadline d is in
   the cache together with d while d has not elapsed, and a reveal of i
   before d succeeds with calldata *)
C2_RecordedUntilDeadline ==
    /\ \A i \in DOMAIN returned :
          now < returned[i].deadline =>
              \E e \in cache : e.id = returned[i].id /\ e.deadline = returned[i].deadline
    /\ \A c \in Conns :
          (/\ Done(c, "reveal")
           /\ \E i \in DOMAIN returned :
                 /\ returned[i].id = conn[c].req.solutionId
                 /\ now < returned[i].deadline)
            => /\ conn[c].resp.status = 200
               /\ "calldata" \in DOMAIN conn[c].resp.body

(* C3: a reveal of a solution id that no solve call has produced fails with
   404 NotFound and returns no calldata *)
C3_UnknownIdNotFound ==
    \A c \in Conns :
        (/\ Done(c, "reveal")
         /\ \A i \in DOMAIN returned : returned[i].id # conn[c].req.solutionId)
          => /\ conn[c].resp.status = 404
             /\ "calldata" \notin DOMAIN conn[c].resp.body

FirstOnly(request) ==
    [request EXCEPT !.orders = <<request.orders[1]>>,
                    !.liquidity = <<request.liquidity[1]>>]

(* C4: for an auction with at least one order and one liquidity entry, solve
   returns exactly one solution with exactly one trade, filling the first
   order's uid with its full sellAmount, and exactly one interaction, with
   the first liquidity entry's id; the uid and the liquidity id occur in the
   auction, and the response is the one of the auction cut down to its first
   order and first liquidity entry *)
C4_FirstOrderFirstLiquidity ==
    \A c \in Conns :
        (/\ Done(c, "solve")
         /\ SolverRequest(conn[c].req)
         /\ conn[c].req.orders # <<>>
         /\ conn[c].req.liquidity # <<>>)
          => LET req == conn[c].req
                 resp == conn[c].resp
             IN  /\ resp.status = 200
                 /\ Len(resp.body.solutions) = 1
                 /\ LET sol == resp.body.solutions[1]
                    IN  /\ Len(sol.trades) = 1
                        /\ sol.trades[1].order = req.orders[1].uid.v
                        /\ sol.trades[1].executedAmount = req.orders[1].sellAmount.v
                        /\ Len(sol.interactions) = 1
                        /\ sol.interactions[1].id = req.liquidity[1].id.v
                        /\ \E i \in DOMAIN req.orders :
                              req.orders[i].uid.v = sol.trades[1].order
                        /\ \E i \in DOMAIN req.liquidity :
                              req.liquidity[i].id.v = sol.interactions[1].id
                 /\ resp = solve_auction(FirstOnly(req))

C4_Witness ==
    \E c \in Conns :
        /\ Done(c, "solve")
        /\ SolverRequest(conn[c].req)
        /\ Len(conn[c].req.orders) = 2
        /\ conn[c].req.orders[1].uid # conn[c].req.orders[2].uid
        /\ Len(conn[c].req.liquidity) = 2
        /\ conn[c].req.liquidity[1].id # conn[c].req.liquidity[2].id
        /\ conn[c].resp.status = 200
        /\ Len(conn[c].resp.body.solutions) = 1

(* C5: solve of a valid auction whose orders or liquidity list is empty
   answers 200 with an empty solution list, hands out no solution id and
   adds no cache entry *)
C5_EmptyAuctionNoSolution ==
    [][\A c \in Conns :
          (/\ conn[c].st = "recv"
           /\ conn[c].req.ep = "solve"
           /\ conn'[c].st = "done"
           /\ SolverRequest(conn[c].req)
           /\ (conn[c].req.orders = <<>> \/ conn[c].req.liquidity = <<>>))
            => /\ conn'[c].resp = [status |-> 200, body |-> [solutions |-> <<>>]]
               /\ returned' = returned
               /\ cache' = cache]_vars

C5_Witness ==
    \E c \in Conns :
        /\ Done(c, "solve")
        /\ SolverRequest(conn[c].req)
        /\ conn[c].req.orders = <<>>
        /\ conn[c].req.liquidity # <<>>
        /\ conn[c].resp.status = 200
        /\ conn[c].resp.body.solutions = <<>>

(* C6: the quote response carries the counter-amount: buyAmount =
   floor(amount*95/100) for kind=sell and sellAmount = floor(amount*100/95)
   for kind=buy, whatever the deadline *)
C6_QuoteCounterAmount ==
    \A c \in Conns :
        (/\ Done(c, "quote")
         /\ conn[c].req.kind \in {"buy", "sell"}
         /\ IsTokenAmount(conn[c].req.amount))
          => LET amount == PyInt(conn[c].req.amount).val
                 body == conn[c].resp.body
             IN  /\ conn[c].resp.status = 200
                 /\ conn[c].req.kind = "sell" =>
                       /\ "buyAmount" \in DOMAIN body
                       /\ body.buyAmount = PyStr((amount * 95) \div 100)
                 /\ conn[c].req.kind = "buy" =>
                       /\ "sellAmount" \in DOMAIN body
                       /\ body.sellAmount = PyStr((amount * 100) \div 95)

(* C7: every entry of an order's protocolFees in an accepted solve request
   decodes, by its kind tag, to one of the three fee-policy variants *)
C7_FeePolicyByKind ==
    \A c \in Conns :
        (Done(c, "solve") /\ conn[c].resp.status = 200)
          => \A i \in DOMAIN conn[c].req.orders :
                \A k \in DOMAIN conn[c].req.orders[i].protocolFees :
                    FeePolicy(conn[c].req.orders[i].protocolFees[k]) # "error"

IsWireAmount(j) == j.t = "str" /\ IsTokenAmount(j.v)

IsWireAddress(j) == j.t = "str" /\ IsAddress(j.v)

(* C8: a quote or solve request carrying an amount that is not a decimal
   string without sign and leading zeros in [0, 2^256-1] is rejected with a
   validation error *)
C8_AmountsValidated ==
    \A c \in Conns :
        /\ (Done(c, "quote") /\ ~IsTokenAmount(conn[c].req.amount))
              => conn[c].resp.status = 422
        /\ (/\ Done(c, "solve")
            /\ \/ ~IsWireAmount(conn[c].req.effectiveGasPrice)
               \/ \E i \in DOMAIN conn[c].req.orders :
                     \/ ~IsWireAmount(conn[c].req.orders[i].sellAmount)
                     \/ ~IsWireAmount(conn[c].req.orders[i].buyAmount))
              => conn[c].resp.status = 422

(* C9: a quote or solve request carrying an address that is not 0x followed
   by exactly 40 hex digits is rejected with a validation error *)
C9_AddressesValidated ==
    \A c \in Conns :
        /\ (/\ Done(c, "quote")
            /\ ~IsAddress(conn[c].req.sellToken) \/ ~IsAddress(conn[c].req.buyToken))
              => conn[c].resp.status = 422
        /\ (/\ Done(c, "solve")
            /\ \/ \E i \in DOMAIN conn[c].req.orders :
                     \/ ~IsWireAddress(conn[c].req.orders[i].sellToken)
                     \/ ~IsWireAddress(conn[c].req.orders[i].buyToken)
               \/ \E i \in DOMAIN conn[c].req.liquidity :
                     ~IsWireAddress(conn[c].req.liquidity[i].address))
              => conn[c].resp.status = 422

(* C10: the solver address of every quote response is 0x followed by
   exactly 40 hex digits *)
C10_SolverAddressWellFormed ==
    \A c \in Conns :
        (Done(c, "quote") /\ conn[c].resp.status = 200)
          => IsAddress(conn[c].resp.body.solver)

====
